---- MODULE Spec2Model ----
(***************************************************************************)
(* Retrieval core of the product-search backend:                           *)
(*   backend/app/rag/rag_service.py   RAGService.recommend_products,       *)
(*                                    _filter_by_price,                    *)
(*                                    _calculate_optimal_threshold         *)
(*   backend/app/rag/vector_search.py VectorSearchService                  *)
(*                                                                         *)
(* Similarity scores and thresholds are in hundredths (0.6 is 60).         *)
(* An Optional value is a sequence of length at most one: None is <<>>,    *)
(* a present value x is <<x>>.                                             *)
(* A query is the record of what the retrieval code reads from the text:   *)
(* len(query.split()), the result of _parse_price_query and the result of  *)
(* _is_informational_query.                                                *)
(***************************************************************************)
EXTENDS Integers, Sequences, FiniteSets, TLC

\* ---------------------------------------------------------------- bounds
NumProducts == 2
LargeCatalogSize == 5
MaxCount == 2
MaxLen == 3
MaxLimit == 3
MaxQueryTokens == 3
NumRequests == 3
MaxLines == 2

\* ------------------------------------------------------ program constants
BaseThreshold == 60
ShortQueryDelta == 10
FewResultsDelta == 15
LongQueryDelta == 5
MinThreshold == 30
MaxThreshold == 90
RetryDelta == 20
BackfillDelta == 15
DefaultMaxResults == 5
MaxMaxResults == 20
DefaultSimilarityThreshold == 60
MaxRetries == 2

\* ------------------------------------------------------------ input sets
NONE == <<>>
Some(x) == <<x>>

Prices == {NONE, Some(40), Some(60)}
Sims == {40, 70}
\* a product has an embedding and any price, or is still waiting for its
\* embedding
Kinds == [price : Prices, embedded : {TRUE}]
         \cup {[price |-> Some(40), embedded |-> FALSE]}

\* Product ids are interchangeable labels (nothing below compares two ids
\* except for equality), so one catalog per multiset of products is enough:
\* the products of a catalog are listed in the order of KindRank.
PriceRank(p) == IF p = NONE THEN 0 ELSE p[1]
KindRank(k) == 2 * PriceRank(k.price) + (IF k.embedded THEN 1 ELSE 0)
CatalogsOf(n) ==
    {c \in [1..n -> Kinds] : \A i \in 1..n, j \in 1..n :
                                 i < j => KindRank(c[i]) <= KindRank(c[j])}

\* what _parse_price_query makes of the query: no price signal, a price
\* keyword without a bound, an upper bound, a lower bound, a range
NoPriceInfo == [is_price_query |-> FALSE, min_price |-> NONE, max_price |-> NONE]
PriceInfos ==
    { NoPriceInfo,
      [is_price_query |-> TRUE, min_price |-> NONE, max_price |-> NONE],
      [is_price_query |-> TRUE, min_price |-> NONE, max_price |-> Some(40)],
      [is_price_query |-> TRUE, min_price |-> Some(60), max_price |-> NONE],
      [is_price_query |-> FALSE, min_price |-> Some(40), max_price |-> Some(60)] }
WordCounts == {0, 1, 3, 6}
Informational == {"yes", "no", "maybe"}
RawCounts == 1..MaxCount
RawThresholds == {30, 60}
\* the requests: the word count of the query (0 for an empty query), the
\* count and threshold asked for, and auto_adjust_threshold; the word count is
\* read only when the threshold is adjusted
\* An argument is a Python value: its type and, for a string, its length and
\* the number of words in it, for a number its value.
StrQuery(w) == [type |-> "str", length |-> 5 * w, words |-> w]
IntArg(n) == [type |-> "int", value |-> n]
FloatArg(t) == [type |-> "float", value |-> t]
OtherArg(type) == [type |-> type, value |-> 0]
Requests ==
    { [user_query |-> StrQuery(r.words),
       max_results |-> IntArg(r.max_results),
       similarity_threshold |-> FloatArg(r.similarity_threshold),
       auto_adjust_threshold |-> r.auto_adjust_threshold] :
      r \in {x \in [words : WordCounts, max_results : RawCounts,
                    similarity_threshold : RawThresholds,
                    auto_adjust_threshold : BOOLEAN] :
                x.auto_adjust_threshold \/ x.words \in {0, 3}} }

Max2(a, b) == IF a >= b THEN a ELSE b
Min2(a, b) == IF a <= b THEN a ELSE b
Take(s, n) == SubSeq(s, 1, Min2(n, Len(s)))
Ids(s) == {s[i].id : i \in 1..Len(s)}

VARIABLES pc, catalog, query_words, price_info, is_informational, max_results,
          similarity_threshold, requested_threshold, auto_adjust_threshold,
          search_results, first_call, first_results, retry, pre_backfill,
          backfill, candidates, products, response, filter_call, search_call,
          request, parse_call, chat_call, retry_call, enhance_call, text_calls, embedding_globals, constructions, generation

vars == <<pc, catalog, query_words, price_info, is_informational, max_results,
          similarity_threshold, requested_threshold, auto_adjust_threshold,
          search_results, first_call, first_results, retry, pre_backfill,
          backfill, candidates, products, response, filter_call, search_call,
          request, parse_call, chat_call, retry_call, enhance_call, text_calls, embedding_globals, constructions, generation>>

\* ------------------------------------------------- VectorSearchService
\* ORDER BY embedding <=> query: every ordering of the rows by ascending
\* distance; rows at the same distance come in an order SQL leaves open.
RECURSIVE RankedRows(_, _)
RankedRows(S, sim) ==
    IF S = {} THEN {<<>>}
    ELSE UNION { { <<p>> \o rest : rest \in RankedRows(S \ {p}, sim) } :
                 p \in {q \in S : \A o \in S : sim[q] >= sim[o]} }

\* the floor taken as inclusive
WhereClause_Inclusive(cat, sim, similarity_threshold_) ==
    {p \in DOMAIN cat : cat[p].embedded /\ sim[p] >= similarity_threshold_}

\* WHERE embedding IS NOT NULL AND distance < 1 - threshold, i.e.
\* similarity > threshold.
WhereClause(cat, sim, similarity_threshold_) ==
    {p \in DOMAIN cat : cat[p].embedded /\ sim[p] > similarity_threshold_}

Row(cat, sim, p) == [id |-> p, price |-> cat[p].price, score |-> sim[p]]

\* the SELECT without its LIMIT
SqlQuery_NoLimit(cat, sim, limit, similarity_threshold_) ==
    { [i \in 1..Len(ranked) |-> Row(cat, sim, ranked[i])] :
        ranked \in RankedRows(WhereClause(cat, sim, similarity_threshold_), sim) }

\* The SELECT of search_similar_products: the lists it may return for one
\* query embedding (sim gives each product's similarity to it), LIMIT limit.
SqlQuery(cat, sim, limit, similarity_threshold_) ==
    { [i \in 1..Min2(limit, Len(ranked)) |-> Row(cat, sim, ranked[i])] :
        ranked \in RankedRows(WhereClause(cat, sim, similarity_threshold_), sim) }

\* search_similar_products: the rows of the SELECT, or [] when the query
\* embedding is empty or the query raised (lines 43-45 and 95-97).
SearchSimilarProducts(cat, sim, limit, similarity_threshold_) ==
    {<<>>} \cup SqlQuery(cat, sim, limit, similarity_threshold_)

\* search_by_query_text: embeds the query again on every call; a missing
\* embedding service or a failed embedding give [].
SearchByQueryText(cat, limit, similarity_threshold_) ==
    {<<>>} \cup UNION { SearchSimilarProducts(cat, sim, limit, similarity_threshold_) :
                        sim \in [DOMAIN cat -> Sims] }

\* ------------------------------------------------------- RAGService
\* a product without a price let through whatever the bounds
KeepsPrice_MissingPriceKept(r, min_price, max_price) ==
    IF r.price = NONE
    THEN TRUE
    ELSE /\ ~(min_price # NONE /\ r.price[1] < min_price[1])
         /\ ~(max_price # NONE /\ r.price[1] > max_price[1])

KeepsPrice(r, min_price, max_price) ==
    IF r.price = NONE
    THEN IF min_price # NONE THEN FALSE
         ELSE IF max_price # NONE THEN TRUE ELSE FALSE
    ELSE /\ ~(min_price # NONE /\ r.price[1] < min_price[1])
         /\ ~(max_price # NONE /\ r.price[1] > max_price[1])

RECURSIVE FilterLoop(_, _, _)
FilterLoop(prods, min_price, max_price) ==
    IF prods = <<>> THEN <<>>
    ELSE IF KeepsPrice(Head(prods), min_price, max_price)
         THEN <<Head(prods)>> \o FilterLoop(Tail(prods), min_price, max_price)
         ELSE FilterLoop(Tail(prods), min_price, max_price)

FilterByPrice(prods, min_price, max_price) ==
    IF prods = <<>> THEN <<>>
    ELSE IF min_price = NONE /\ max_price = NONE THEN prods
    ELSE FilterLoop(prods, min_price, max_price)

CalculateOptimalThreshold(words, initial_result_count) ==
    LET b1 == IF words <= 2 THEN BaseThreshold - ShortQueryDelta ELSE BaseThreshold
        b2 == IF initial_result_count < 3 THEN b1 - FewResultsDelta ELSE b1
        b3 == IF words > 5 THEN b2 + LongQueryDelta ELSE b2
    IN  Max2(MinThreshold, Min2(MaxThreshold, b3))

\* the count above 20 let through
ClampMaxResults_NoUpper(n) ==
    IF n < 1 THEN DefaultMaxResults ELSE n

ClampMaxResults(n) ==
    IF n < 1 THEN DefaultMaxResults
    ELSE IF n > MaxMaxResults THEN MaxMaxResults ELSE n

ClampThreshold(t) == IF t < 0 THEN 0 ELSE IF t > 100 THEN 100 ELSE t

\* int(x) and float(x) of Python: the value, or the exception they raise.
\* int() of a float infinity and float() of an int beyond the float range
\* raise OverflowError, which is not a ValueError.
Converted(v) == [raises |-> "none", value |-> v]
Raises(e) == [raises |-> e, value |-> 0]
IntOf(arg) ==
    CASE arg.type \in {"int", "float"} -> Converted(arg.value)
      [] arg.type \in {"str", "nan"} -> Raises("ValueError")
      [] arg.type = "none" -> Raises("TypeError")
      [] arg.type = "inf" -> Raises("OverflowError")
FloatOf(arg) ==
    CASE arg.type \in {"int", "float"} -> Converted(arg.value)
      [] arg.type = "str" -> Raises("ValueError")
      [] arg.type = "none" -> Raises("TypeError")
      [] arg.type = "big_int" -> Raises("OverflowError")

\* lines 730-738: except (ValueError, TypeError) gives the default
ValidateMaxResults(arg) ==
    LET c == IntOf(arg)
    IN  IF c.raises = "none" THEN Converted(ClampMaxResults(c.value))
        ELSE IF c.raises \in {"ValueError", "TypeError"}
        THEN Converted(DefaultMaxResults)
        ELSE c

\* lines 740-748
ValidateThreshold(arg) ==
    LET c == FloatOf(arg)
    IN  IF c.raises = "none" THEN Converted(ClampThreshold(c.value))
        ELSE IF c.raises \in {"ValueError", "TypeError"}
        THEN Converted(DefaultSimilarityThreshold)
        ELSE c

\* lines 796-810 and 822-834: keep the entries whose score is in [0, 1]
ValidResults(results) == SelectSeq(results, LAMBDA r : 0 <= r.score /\ r.score <= 100)

HasPriceBound(info) ==
    info.min_price # NONE \/ info.max_price # NONE

\* lines 869-878: union of two lists, first occurrence of an id wins
RECURSIVE DedupAppend(_, _)
DedupAppend(acc, rest) ==
    IF rest = <<>> THEN acc
    ELSE IF Head(rest).id \in Ids(acc) THEN DedupAppend(acc, Tail(rest))
         ELSE DedupAppend(Append(acc, Head(rest)), Tail(rest))

\* the two lists concatenated without the seen_ids test
Combine_NoDedup(first, additional) == first \o additional

\* the backfill results taken before the earlier candidates
Combine_AdditionalFirst(first, additional) ==
    DedupAppend(DedupAppend(<<>>, additional), first)

\* the backfill results replacing the earlier candidates
Combine_Replace(first, additional) == DedupAppend(<<>>, additional)

Combine(first, additional) == DedupAppend(DedupAppend(<<>>, first), additional)

\* the backfill results merged without the price filter
AdditionalResults_Unfiltered(res, info) == res

\* lines 863-867: the price filter applied to the backfill results
AdditionalResults(res, info) == FilterByPrice(res, info.min_price, info.max_price)

\* no final cut
TruncateResults_NoCut(results, max_results_) == results

\* line 886: search_results[:max_results]
TruncateResults(results, max_results_) == Take(results, max_results_)

\* line 880: list.sort(key=score, reverse=True), a stable sort
RECURSIVE InsertByScore(_, _)
InsertByScore(sorted, r) ==
    IF sorted = <<>> THEN <<r>>
    ELSE IF Head(sorted).score >= r.score
         THEN <<Head(sorted)>> \o InsertByScore(Tail(sorted), r)
         ELSE <<r>> \o sorted

RECURSIVE InsertAll(_)
InsertAll(s) ==
    IF s = <<>> THEN <<>>
    ELSE InsertByScore(InsertAll(SubSeq(s, 1, Len(s) - 1)), s[Len(s)])

\* the union left in the order it was built
SortByScoreDesc_Unsorted(s) == s

SortByScoreDesc(s) == InsertAll(s)

NoCall == [threshold |-> 0, limit |-> 0]
NoRetry == [attempted |-> FALSE, raised |-> FALSE, threshold |-> 0, limit |-> 0]
NoBackfill == [status |-> "none", threshold |-> 0, limit |-> 0, additional |-> <<>>]
NoResponse == [kind |-> "none", message |-> "none", products |-> <<>>,
               needs_clarification |-> FALSE, scores |-> <<>>]
\* the responses that carry no product
EmptyResponse(kind, message) ==
    [kind |-> kind, message |-> message, products |-> <<>>,
     needs_clarification |-> FALSE, scores |-> <<>>]
NoFilterCall == [products |-> <<>>, min_price |-> NONE, max_price |-> NONE,
                 result |-> <<>>]
NoSearchCall == [sim |-> <<>>, limit |-> 0, threshold |-> 0, failed |-> FALSE,
                 result |-> <<>>]
NoRequest == [user_query |-> [type |-> "str", length |-> 0, words |-> 0],
              max_results |-> [type |-> "int", value |-> DefaultMaxResults],
              similarity_threshold |-> [type |-> "float",
                                        value |-> DefaultSimilarityThreshold],
              auto_adjust_threshold |-> TRUE]
NoParseCall == [query |-> <<>>, result |-> NONE]
NoChatCall == [message |-> [type |-> "str", length |-> 0, words |-> 0],
               max_results |-> [type |-> "int", value |-> DefaultMaxResults],
               similarity_threshold |-> [type |-> "float",
                                         value |-> DefaultSimilarityThreshold],
               status |-> 0]

NoGeneration == [llm_client |-> FALSE, prompt |-> "none", attempts |-> 0,
                 failed |-> 0, llm_response |-> <<>>, source |-> "none",
                 text |-> <<>>]
\* embedding_service.py lines 217-218: the module globals as they are at import
NoEmbeddingGlobals == [embedding_service |-> "None", embedding_service_error |-> "None"]
NoConstructions == <<>>
NoTextCalls == [query_text |-> <<>>, embedding_service |-> FALSE, calls |-> <<>>]
NoEnhanceCall == [query |-> <<>>, result |-> <<>>]
NoRetryCall == [first |-> <<>>, valid_retry |-> <<>>, raised |-> FALSE,
                result |-> <<>>]

\* no direct call of a single function and no HTTP request is in progress
CallsInit ==
    /\ generation = NoGeneration
    /\ constructions = NoConstructions
    /\ embedding_globals = NoEmbeddingGlobals
    /\ text_calls = NoTextCalls
    /\ enhance_call = NoEnhanceCall
    /\ retry_call = NoRetryCall
    /\ request = NoRequest
    /\ parse_call = NoParseCall
    /\ chat_call = NoChatCall

RequestInit ==
    /\ query_words = 0
    /\ price_info = NoPriceInfo
    /\ is_informational = "no"
    /\ max_results = DefaultMaxResults
    /\ similarity_threshold = DefaultSimilarityThreshold
    /\ requested_threshold = DefaultSimilarityThreshold
    /\ auto_adjust_threshold = TRUE
    /\ search_results = <<>>
    /\ first_call = NoCall
    /\ first_results = <<>>
    /\ retry = NoRetry
    /\ pre_backfill = <<>>
    /\ backfill = NoBackfill
    /\ candidates = <<>>
    /\ products = <<>>
    /\ response = NoResponse

Init ==
    /\ pc = "idle"
    /\ catalog \in CatalogsOf(NumProducts)
    /\ RequestInit
    /\ filter_call = NoFilterCall
    /\ search_call = NoSearchCall
    /\ CallsInit

\* generate_embeddings_for_products: the ingestion job gives every product
\* that has no embedding one, in one committed batch; it runs beside requests.
GenerateEmbeddings ==
    /\ pc \in {"first_pass", "retry", "price", "backfill"}
    /\ \E p \in DOMAIN catalog : ~catalog[p].embedded
    /\ catalog' = [p \in DOMAIN catalog |-> [catalog[p] EXCEPT !.embedded = TRUE]]
    /\ UNCHANGED <<pc, query_words, price_info, is_informational, max_results,
                   similarity_threshold, requested_threshold,
                   auto_adjust_threshold, search_results, first_call,
                   first_results, retry, pre_backfill, backfill, candidates,
                   products, response, filter_call, search_call,
                   request, parse_call, chat_call,
                   retry_call,
                   enhance_call,
                   text_calls,
                   embedding_globals,
                   constructions,
                   generation>>

\* recommend_products, lines 711-772, called with the arguments r: input
\* validation and threshold choice. The conversions of lines 732 and 742 sit
\* before the try of line 764: an exception they do not catch leaves
\* recommend_products.
ValidateWith(r) ==
    LET q == r.user_query
        m == ValidateMaxResults(r.max_results)
        t == ValidateThreshold(r.similarity_threshold)
        auto == r.auto_adjust_threshold
    IN
        /\ query_words' = q.words
        /\ auto_adjust_threshold' = auto
        /\ IF q.type # "str" \/ q.length = 0
           THEN /\ pc' = "done"
                /\ response' = EmptyResponse("invalid", "invalid_query")
                /\ UNCHANGED <<max_results, similarity_threshold, requested_threshold>>
           ELSE IF q.words = 0
           THEN /\ pc' = "done"
                /\ response' = EmptyResponse("invalid", "empty_query")
                /\ UNCHANGED <<max_results, similarity_threshold, requested_threshold>>
           ELSE IF m.raises # "none" \/ t.raises # "none"
           THEN /\ pc' = "raised"
                /\ UNCHANGED <<max_results, similarity_threshold, requested_threshold,
                               response>>
           ELSE /\ pc' = "first_pass"
                /\ max_results' = m.value
                /\ requested_threshold' = t.value
                /\ similarity_threshold' =
                      IF auto THEN CalculateOptimalThreshold(q.words, 0)
                      ELSE t.value
                /\ UNCHANGED response
        /\ UNCHANGED <<catalog, price_info, is_informational, search_results,
                       first_call, first_results, retry, pre_backfill, backfill,
                       candidates, products, filter_call, search_call,
                       request, parse_call, chat_call,
                       retry_call,
                       enhance_call,
                       text_calls,
                       embedding_globals,
                       constructions,
                       generation>>

Validate ==
    /\ pc = "idle"
    /\ \E r \in Requests : ValidateWith(r)

\* lines 774-810: first pass and validation of its results
FirstPass ==
    /\ pc = "first_pass"
    /\ \E res \in SearchByQueryText(catalog, max_results * 2, similarity_threshold) :
        /\ search_results' = ValidResults(res)
        /\ first_results' = ValidResults(res)
        /\ candidates' = ValidResults(res)
    /\ first_call' = [threshold |-> similarity_threshold, limit |-> max_results * 2]
    /\ pc' = "retry"
    /\ UNCHANGED <<catalog, query_words, price_info, is_informational, max_results,
                   similarity_threshold, requested_threshold,
                   auto_adjust_threshold, retry, pre_backfill, backfill,
                   products, response, filter_call, search_call,
                   request, parse_call, chat_call,
                   retry_call,
                   enhance_call,
                   text_calls,
                   embedding_globals,
                   constructions,
                   generation>>

\* lines 782-789: the first search raised; the error response is returned
FirstPassRaises ==
    /\ pc = "first_pass"
    /\ first_call' = [threshold |-> similarity_threshold, limit |-> max_results * 2]
    /\ response' = EmptyResponse("search_error", "search_error")
    /\ pc' = "done"
    /\ UNCHANGED <<catalog, query_words, price_info, is_informational, max_results,
                   similarity_threshold, requested_threshold,
                   auto_adjust_threshold, search_results, first_results, retry,
                   pre_backfill, backfill, candidates, products, filter_call,
                   search_call,
                   request, parse_call, chat_call,
                   retry_call,
                   enhance_call,
                   text_calls,
                   embedding_globals,
                   constructions,
                   generation>>

\* the retry also attempted at the floor
RetryGuard_AtFloor(results, max_results_, threshold) ==
    Len(results) < max_results_ /\ threshold >= MinThreshold

\* line 813: the guard of the retry pass
RetryGuard(results, max_results_, threshold) ==
    Len(results) < max_results_ /\ threshold > MinThreshold

RetryThreshold(threshold) == Max2(MinThreshold, threshold - RetryDelta)

\* the retry results taken whatever their number
AdoptRetry_Always(valid_retry, results) == valid_retry

\* the retry results taken as soon as they are not fewer
AdoptRetry_NotFewer(valid_retry, results) ==
    IF Len(valid_retry) >= Len(results) THEN valid_retry ELSE results

\* lines 835-836: the retry results replace the first-pass results only
\* when there are more of them
AdoptRetry(valid_retry, results) ==
    IF Len(valid_retry) > Len(results) THEN valid_retry ELSE results

\* lines 812-836: retry pass; its valid results replace the first pass's
\* only when there are more of them
Retry ==
    /\ pc = "retry"
    /\ RetryGuard(search_results, max_results, similarity_threshold)
    /\ \E res \in SearchByQueryText(catalog, max_results * 2,
                                    RetryThreshold(similarity_threshold)) :
        LET valid_retry == ValidResults(res)
        IN  /\ search_results' = AdoptRetry(valid_retry, search_results)
            /\ candidates' = search_results'
    /\ retry' = [attempted |-> TRUE, raised |-> FALSE,
                 threshold |-> RetryThreshold(similarity_threshold),
                 limit |-> max_results * 2]
    /\ pc' = "price"
    /\ UNCHANGED <<catalog, query_words, price_info, is_informational, max_results,
                   similarity_threshold, requested_threshold,
                   auto_adjust_threshold, first_call, first_results,
                   pre_backfill, backfill, products, response, filter_call,
                   search_call,
                   request, parse_call, chat_call,
                   retry_call,
                   enhance_call,
                   text_calls,
                   embedding_globals,
                   constructions,
                   generation>>

\* lines 837-838: the retry search raised; the first-pass results are kept
RetryRaises ==
    /\ pc = "retry"
    /\ RetryGuard(search_results, max_results, similarity_threshold)
    /\ retry' = [attempted |-> TRUE, raised |-> TRUE,
                 threshold |-> RetryThreshold(similarity_threshold),
                 limit |-> max_results * 2]
    /\ pc' = "price"
    /\ UNCHANGED <<catalog, query_words, price_info, is_informational, max_results,
                   similarity_threshold, requested_threshold,
                   auto_adjust_threshold, search_results, first_call,
                   first_results, pre_backfill, backfill, candidates, products,
                   response, filter_call, search_call,
                   request, parse_call, chat_call,
                   retry_call,
                   enhance_call,
                   text_calls,
                   embedding_globals,
                   constructions,
                   generation>>

\* line 813 false: no retry
SkipRetry ==
    /\ pc = "retry"
    /\ ~RetryGuard(search_results, max_results, similarity_threshold)
    /\ pc' = "price"
    /\ UNCHANGED <<catalog, query_words, price_info, is_informational, max_results,
                   similarity_threshold, requested_threshold,
                   auto_adjust_threshold, search_results, first_call,
                   first_results, retry, pre_backfill, backfill, candidates,
                   products, response, filter_call, search_call,
                   request, parse_call, chat_call,
                   retry_call,
                   enhance_call,
                   text_calls,
                   embedding_globals,
                   constructions,
                   generation>>

\* the backfill also run when the filtered list is just long enough
BackfillGuard_AtMost(filtered, max_results_) == Len(filtered) <= max_results_

\* line 852: the guard of the backfill pass
BackfillGuard(filtered, max_results_) == Len(filtered) < max_results_

\* lines 840-852: parse the price constraint and filter the candidates
PriceFilter ==
    /\ pc = "price"
    /\ \E pi \in PriceInfos :
        /\ price_info' = pi
        /\ IF HasPriceBound(pi)
           THEN LET filtered == FilterByPrice(search_results, pi.min_price, pi.max_price)
                IN  /\ search_results' = filtered
                    /\ pre_backfill' = filtered
                    /\ candidates' = filtered
                    /\ pc' = IF BackfillGuard(filtered, max_results)
                             THEN "backfill" ELSE "truncate"
           ELSE /\ pc' = "truncate"
                /\ UNCHANGED <<search_results, pre_backfill, candidates>>
    /\ UNCHANGED <<catalog, query_words, is_informational, max_results,
                   similarity_threshold, requested_threshold,
                   auto_adjust_threshold, first_call, first_results, retry,
                   backfill, products, response, filter_call, search_call,
                   request, parse_call, chat_call,
                   retry_call,
                   enhance_call,
                   text_calls,
                   embedding_globals,
                   constructions,
                   generation>>

BackfillThreshold(threshold) == Max2(MinThreshold, threshold - BackfillDelta)

\* lines 853-881: backfill pass, price filter, union by id, sort, cut
Backfill ==
    /\ pc = "backfill"
    /\ \E res \in SearchByQueryText(catalog, max_results * 3,
                                    BackfillThreshold(similarity_threshold)) :
        LET additional_results == AdditionalResults(res, price_info)
            combined_results == SortByScoreDesc(Combine(search_results, additional_results))
        IN  /\ backfill' = [status |-> "merged",
                            threshold |-> BackfillThreshold(similarity_threshold),
                            limit |-> max_results * 3,
                            additional |-> additional_results]
            /\ candidates' = combined_results
            /\ search_results' = Take(combined_results, max_results * 2)
    /\ pc' = "truncate"
    /\ UNCHANGED <<catalog, query_words, price_info, is_informational, max_results,
                   similarity_threshold, requested_threshold,
                   auto_adjust_threshold, first_call, first_results, retry,
                   pre_backfill, products, response, filter_call, search_call,
                   request, parse_call, chat_call,
                   retry_call,
                   enhance_call,
                   text_calls,
                   embedding_globals,
                   constructions,
                   generation>>

\* lines 882-883: the backfill raised; the filtered candidates are kept
BackfillRaises ==
    /\ pc = "backfill"
    /\ backfill' = [status |-> "raised",
                    threshold |-> BackfillThreshold(similarity_threshold),
                    limit |-> max_results * 3,
                    additional |-> <<>>]
    /\ pc' = "truncate"
    /\ UNCHANGED <<catalog, query_words, price_info, is_informational, max_results,
                   similarity_threshold, requested_threshold,
                   auto_adjust_threshold, search_results, first_call,
                   first_results, retry, pre_backfill, candidates, products,
                   response, filter_call, search_call,
                   request, parse_call, chat_call,
                   retry_call,
                   enhance_call,
                   text_calls,
                   embedding_globals,
                   constructions,
                   generation>>

\* lines 885-890: cut to max_results
Truncate ==
    /\ pc = "truncate"
    /\ search_results' = TruncateResults(search_results, max_results)
    /\ products' = TruncateResults(search_results, max_results)
    /\ pc' = "respond"
    /\ UNCHANGED <<catalog, query_words, price_info, is_informational, max_results,
                   similarity_threshold, requested_threshold,
                   auto_adjust_threshold, first_call, first_results, retry,
                   pre_backfill, backfill, candidates, response, filter_call,
                   search_call,
                   request, parse_call, chat_call,
                   retry_call,
                   enhance_call,
                   text_calls,
                   embedding_globals,
                   constructions,
                   generation>>

ScoresOf(results) == [i \in 1..Len(results) |-> results[i].score]

\* the price-range message given to every price query
EmptyResultMessage_PriceQuery(info) ==
    IF info.is_price_query THEN "no_match_in_price_range" ELSE "no_match"

\* lines 898-908: the message of a response without products
EmptyResultMessage(info) ==
    IF HasPriceBound(info) THEN "no_match_in_price_range" ELSE "no_match"

\* an ambiguous question treated as informational
IsInformational_AmbiguousToo(inf) == inf # "no"

\* lines 924 and 1013: the truth value of what _is_informational_query
\* returned: True for a pattern match, None (false) for a question that
\* matched no pattern, False otherwise
IsInformational(inf) == inf = "yes"

\* what becomes of the text generation: self.llm_client is None, both
\* attempts of generate_content raised, or a text came back
LlmOutcomes == {"unavailable", "failed", "generated"}

\* lines 892-1050: the response. clarifying says whether the generated text
\* asks the user to clarify (lines 1027-1039).
Respond ==
    /\ pc = "respond"
    /\ \E inf \in Informational, llm \in LlmOutcomes, clarifying \in BOOLEAN :
        /\ clarifying => (products # <<>> /\ llm = "generated" /\ inf # "yes")
        /\ is_informational' = inf
        /\ response' =
             IF products = <<>>
             THEN EmptyResponse("empty", EmptyResultMessage(price_info))
             ELSE IF llm = "unavailable"
             THEN [kind |-> "no_llm", message |-> "found_count",
                   products |-> IF IsInformational(inf) THEN <<>> ELSE products,
                   needs_clarification |-> FALSE,
                   scores |-> ScoresOf(search_results)]
             ELSE LET message == IF llm = "failed" THEN "fallback_found_count"
                                 ELSE "generated"
                  IN  IF IsInformational(inf)
                      THEN EmptyResponse("informational", message)
                      ELSE [kind |-> "discovery", message |-> message,
                            products |-> products,
                            needs_clarification |-> clarifying,
                            scores |-> ScoresOf(search_results)]
    /\ pc' = "done"
    /\ UNCHANGED <<catalog, query_words, price_info, max_results,
                   similarity_threshold, requested_threshold,
                   auto_adjust_threshold, search_results, first_call,
                   first_results, retry, pre_backfill, backfill, candidates,
                   products, filter_call, search_call,
                   request, parse_call, chat_call,
                   retry_call,
                   enhance_call,
                   text_calls,
                   embedding_globals,
                   constructions,
                   generation>>

Next ==
    \/ Validate
    \/ GenerateEmbeddings
    \/ FirstPass
    \/ FirstPassRaises
    \/ Retry
    \/ RetryRaises
    \/ SkipRetry
    \/ PriceFilter
    \/ Backfill
    \/ BackfillRaises
    \/ Truncate
    \/ Respond

Spec == Init /\ [][Next]_vars

\* ---------------------------------------------------- _filter_by_price
FilterPrices == {NONE, Some(40), Some(50), Some(60)}
FilterBounds == {NONE, Some(40), Some(50)}
CandidateLists ==
    UNION { { [i \in 1..n |-> [id |-> i, price |-> ps[i], score |-> 100 - 10 * i]] :
              ps \in [1..n -> FilterPrices] } : n \in 0..MaxLen }

InitFilter ==
    /\ pc = "filter_call"
    /\ catalog = <<>>
    /\ RequestInit
    /\ \E prods \in CandidateLists, lo \in FilterBounds, hi \in FilterBounds :
          filter_call = [products |-> prods, min_price |-> lo, max_price |-> hi,
                         result |-> <<>>]
    /\ search_call = NoSearchCall
    /\ CallsInit

\* one call of _filter_by_price(products, min_price, max_price)
FilterCall ==
    /\ pc = "filter_call"
    /\ filter_call' = [filter_call EXCEPT !.result =
                          FilterByPrice(filter_call.products, filter_call.min_price,
                                        filter_call.max_price)]
    /\ pc' = "filter_done"
    /\ UNCHANGED <<catalog, query_words, price_info, is_informational, max_results,
                   similarity_threshold, requested_threshold,
                   auto_adjust_threshold, search_results, first_call,
                   first_results, retry, pre_backfill, backfill, candidates,
                   products, response, search_call,
                   request, parse_call, chat_call,
                   retry_call,
                   enhance_call,
                   text_calls,
                   embedding_globals,
                   constructions,
                   generation>>

SpecFilter == InitFilter /\ [][FilterCall]_vars

\* ---------------------------------------------- search_similar_products
SearchThresholds == {40, 60}

InitSearch ==
    /\ pc = "search_call"
    /\ catalog \in CatalogsOf(NumProducts)
    /\ RequestInit
    /\ filter_call = NoFilterCall
    /\ CallsInit
    /\ \E sim \in [1..NumProducts -> Sims], k \in 0..MaxLimit, t \in SearchThresholds :
          search_call = [sim |-> sim, limit |-> k, threshold |-> t,
                         failed |-> FALSE, result |-> <<>>]

\* one call of search_similar_products whose SELECT returned
SearchCall ==
    /\ pc = "search_call"
    /\ \E res \in SqlQuery(catalog, search_call.sim, search_call.limit,
                            search_call.threshold) :
          search_call' = [search_call EXCEPT !.result = res]
    /\ pc' = "search_done"
    /\ UNCHANGED <<catalog, query_words, price_info, is_informational, max_results,
                   similarity_threshold, requested_threshold,
                   auto_adjust_threshold, search_results, first_call,
                   first_results, retry, pre_backfill, backfill, candidates,
                   products, response, filter_call,
                   request, parse_call, chat_call,
                   retry_call,
                   enhance_call,
                   text_calls,
                   embedding_globals,
                   constructions,
                   generation>>

\* one call of search_similar_products that found the query embedding empty
\* or whose SELECT raised
SearchCallFails ==
    /\ pc = "search_call"
    /\ search_call' = [search_call EXCEPT !.result = <<>>, !.failed = TRUE]
    /\ pc' = "search_done"
    /\ UNCHANGED <<catalog, query_words, price_info, is_informational, max_results,
                   similarity_threshold, requested_threshold,
                   auto_adjust_threshold, search_results, first_call,
                   first_results, retry, pre_backfill, backfill, candidates,
                   products, response, filter_call,
                   request, parse_call, chat_call,
                   retry_call,
                   enhance_call,
                   text_calls,
                   embedding_globals,
                   constructions,
                   generation>>

NextSearch == SearchCall \/ SearchCallFails

SpecSearch == InitSearch /\ [][NextSearch]_vars

\* A request for two products on a larger catalog of products that all cost
\* 40 and of which one has its embedding, taken up where the first pass starts
\* (one-word query, threshold adjusted to 0.35); the embedding job commits
\* its batch while the request is about to run its backfill pass.
InitBackfill ==
    /\ pc = "first_pass"
    /\ catalog = [p \in 1..LargeCatalogSize |->
                    [price |-> Some(40), embedded |-> (p = LargeCatalogSize)]]
    /\ query_words = 1
    /\ price_info = NoPriceInfo
    /\ is_informational = "no"
    /\ max_results = 2
    /\ similarity_threshold = CalculateOptimalThreshold(1, 0)
    /\ requested_threshold = DefaultSimilarityThreshold
    /\ auto_adjust_threshold = TRUE
    /\ search_results = <<>>
    /\ first_call = NoCall
    /\ first_results = <<>>
    /\ retry = NoRetry
    /\ pre_backfill = <<>>
    /\ backfill = NoBackfill
    /\ candidates = <<>>
    /\ products = <<>>
    /\ response = NoResponse
    /\ filter_call = NoFilterCall
    /\ search_call = NoSearchCall
    /\ CallsInit

GenerateEmbeddingsBeforeBackfill == pc = "backfill" /\ GenerateEmbeddings

NextBackfill ==
    \/ GenerateEmbeddingsBeforeBackfill
    \/ FirstPass
    \/ FirstPassRaises
    \/ Retry
    \/ RetryRaises
    \/ PriceFilter
    \/ Backfill
    \/ BackfillRaises

SpecBackfill == InitBackfill /\ [][NextBackfill]_vars

\* ---------------------------------------------------- _parse_price_query
\* A query is a sequence of tokens. The code looks for its keywords with
\* `kw in query_lower`, a substring test: KeywordsIn gives the keywords that
\* occur inside a token ("pullover" holds "over").
Vocabulary ==
    {"shoes", "under", "over", "pullover", "between", "and", "price", "cheap",
     "premium", "0", "40", "60"}
KeywordsIn(token) ==
    CASE token = "pullover" -> {"over"}
      [] token \in {"under", "over", "between", "and", "price", "cheap", "premium"}
            -> {token}
      [] OTHER -> {}
QueryContains(query, kws) ==
    \E i \in 1..Len(query) : KeywordsIn(query[i]) \cap kws # {}

\* line 493-498, 526, 530, 534, 553, 556: the keyword lists
PriceKeywords ==
    {"price", "cost", "budget", "cheap", "expensive", "affordable", "under",
     "below", "over", "above", "between", "upto", "up to", "less than",
     "more than", "maximum", "minimum", "max", "min", "rupee", "rupees", "rs",
     "inr"}
UpperKeywords == {"under", "below", "less than", "upto", "up to", "maximum", "max"}
LowerKeywords == {"over", "above", "more than", "minimum", "min"}
CheapKeywords == {"cheap", "affordable", "budget", "low price", "low cost"}
ExpensiveKeywords == {"expensive", "premium", "luxury", "high price", "high cost"}
CheapMaxPrice == 100
ExpensiveMinPrice == 200

\* lines 506-521: the numbers of the query, in order, those above 0 only
IsNumber(token) == token \in {"0", "40", "60"}
NumberOf(token) == CASE token = "0" -> 0 [] token = "40" -> 40 [] token = "60" -> 60
RECURSIVE PriceValues(_)
PriceValues(query) ==
    IF query = <<>> THEN <<>>
    ELSE IF IsNumber(Head(query)) /\ NumberOf(Head(query)) > 0
         THEN <<NumberOf(Head(query))>> \o PriceValues(Tail(query))
         ELSE PriceValues(Tail(query))
MaxOf(values) == CHOOSE v \in {values[i] : i \in 1..Len(values)} :
                    \A i \in 1..Len(values) : v >= values[i]
MinOf(values) == CHOOSE v \in {values[i] : i \in 1..Len(values)} :
                    \A i \in 1..Len(values) : v <= values[i]

\* a single number without a keyword taken as a lower bound
SinglePriceDefault_AsMin(info, value) == [info EXCEPT !.min_price = Some(value)]

\* lines 547-549: a single number without a keyword is an upper bound
SinglePriceDefault(info, value) == [info EXCEPT !.max_price = Some(value)]

\* lines 523-549: the bounds read off the numbers, one rule at most
NumericBounds(query, info) ==
    LET values == PriceValues(query)
    IN  IF values = <<>> THEN info
        ELSE IF QueryContains(query, UpperKeywords)
        THEN [info EXCEPT !.max_price = Some(MaxOf(values))]
        ELSE IF QueryContains(query, LowerKeywords)
        THEN [info EXCEPT !.min_price = Some(MinOf(values))]
        ELSE IF \/ QueryContains(query, {"between"})
                \/ (Len(values) >= 2 /\ QueryContains(query, {"and"}))
        THEN [info EXCEPT !.min_price = Some(MinOf(values)),
                          !.max_price = Some(MaxOf(values))]
        ELSE IF Len(values) = 1
        THEN SinglePriceDefault(info, values[1])
        ELSE info

\* lines 551-558: the defaults of the qualitative terms
QualitativeBounds(query, info) ==
    IF PriceValues(query) # <<>> THEN info
    ELSE IF QueryContains(query, CheapKeywords)
    THEN [info EXCEPT !.max_price = Some(CheapMaxPrice), !.is_price_query = TRUE]
    ELSE IF QueryContains(query, ExpensiveKeywords)
    THEN [info EXCEPT !.min_price = Some(ExpensiveMinPrice), !.is_price_query = TRUE]
    ELSE info

\* a constraint returned only when it has a bound
ParseResult_BoundsOnly(info) ==
    IF HasPriceBound(info) THEN Some(info) ELSE NONE

\* line 560: the constraint, or None
ParseResult(info) ==
    IF info.is_price_query \/ HasPriceBound(info) THEN Some(info) ELSE NONE

\* _parse_price_query(query)
ParsePriceQuery(query) ==
    IF query = <<>> THEN NONE
    ELSE LET found == [NoPriceInfo EXCEPT
                          !.is_price_query = QueryContains(query, PriceKeywords)]
         IN  ParseResult(QualitativeBounds(query, NumericBounds(query, found)))

Queries == UNION { [1..n -> Vocabulary] : n \in 0..MaxQueryTokens }

InitParse ==
    /\ generation = NoGeneration
    /\ constructions = NoConstructions
    /\ embedding_globals = NoEmbeddingGlobals
    /\ text_calls = NoTextCalls
    /\ enhance_call = NoEnhanceCall
    /\ retry_call = NoRetryCall
    /\ pc = "parse_call"
    /\ catalog = <<>>
    /\ RequestInit
    /\ filter_call = NoFilterCall
    /\ search_call = NoSearchCall
    /\ request = NoRequest
    /\ \E q \in Queries : parse_call = [query |-> q, result |-> NONE]
    /\ chat_call = NoChatCall

\* one call of _parse_price_query
ParseCall ==
    /\ pc = "parse_call"
    /\ parse_call' = [parse_call EXCEPT !.result = ParsePriceQuery(parse_call.query)]
    /\ pc' = "parse_done"
    /\ UNCHANGED <<catalog, query_words, price_info, is_informational, max_results,
                   similarity_threshold, requested_threshold,
                   auto_adjust_threshold, search_results, first_call,
                   first_results, retry, pre_backfill, backfill, candidates,
                   products, response, filter_call, search_call, request,
                   chat_call,
                   retry_call,
                   enhance_call,
                   text_calls,
                   embedding_globals,
                   constructions,
                   generation>>

SpecParse == InitParse /\ [][ParseCall]_vars

\* ------------------------------------- recommend_products, any arguments
\* the values a caller may pass: a query that is None, not a string, empty,
\* blank, or of one or three words; a count that is an integer in or out of
\* range, a string, None, or a float NaN or infinity; a threshold that is a
\* float in or out of range, a string, None, or an int beyond the float range
RawQueries ==
    { [type |-> "none", length |-> 0, words |-> 0],
      [type |-> "int", length |-> 0, words |-> 0],
      StrQuery(0),
      [type |-> "str", length |-> 2, words |-> 0],
      StrQuery(1),
      StrQuery(3) }
RawCountArgs ==
    {IntArg(n) : n \in {-1, 0, 1, MaxMaxResults, MaxMaxResults + 1}}
        \cup {OtherArg("str"), OtherArg("none"), OtherArg("nan"), OtherArg("inf")}
RawThresholdArgs ==
    {FloatArg(t) : t \in {-10, 30, 60, 150}}
        \cup {OtherArg("str"), OtherArg("none"), OtherArg("big_int")}
RawRequests ==
    [user_query : RawQueries, max_results : RawCountArgs,
     similarity_threshold : RawThresholdArgs, auto_adjust_threshold : BOOLEAN]

InitValidate ==
    /\ generation = NoGeneration
    /\ constructions = NoConstructions
    /\ embedding_globals = NoEmbeddingGlobals
    /\ text_calls = NoTextCalls
    /\ enhance_call = NoEnhanceCall
    /\ retry_call = NoRetryCall
    /\ pc = "validate_call"
    /\ catalog = <<>>
    /\ RequestInit
    /\ filter_call = NoFilterCall
    /\ search_call = NoSearchCall
    /\ request \in RawRequests
    /\ parse_call = NoParseCall
    /\ chat_call = NoChatCall

\* recommend_products entered with the arguments of request
ValidateCall ==
    /\ pc = "validate_call"
    /\ ValidateWith(request)

SpecValidate == InitValidate /\ [][ValidateCall]_vars

\* ------------------------------------------------------- POST /api/chat
\* The status FastAPI answers when the body does not validate against
\* ChatRequest: main.py registers no handler for the validation error, so the
\* framework's own answer stands. The handler's statuses are lines 40 and 127.
ValidationErrorStatus == 422
BadRequestStatus == 400
OkStatus == 200

\* the bodies posted: message missing, empty, blank, of one or three words;
\* max_results and similarity_threshold in and out of range
ChatMessages ==
    { [type |-> "none", length |-> 0, words |-> 0],
      StrQuery(0),
      [type |-> "str", length |-> 2, words |-> 0],
      StrQuery(1),
      StrQuery(3) }
ChatCounts == {IntArg(n) : n \in {0, 1, MaxCount, MaxMaxResults + 1}}
ChatThresholds == {FloatArg(t) : t \in {-10, 60, 150}}

\* ChatRequest, schemas/chat.py lines 22-72: the field constraints and the
\* validators
ChatRequestValid(body) ==
    /\ body.message.type = "str"
    /\ body.message.length >= 1
    /\ body.message.words > 0
    /\ body.max_results.value >= 1 /\ body.max_results.value <= MaxMaxResults
    /\ body.similarity_threshold.value >= 0 /\ body.similarity_threshold.value <= 100

InitChat ==
    /\ generation = NoGeneration
    /\ constructions = NoConstructions
    /\ embedding_globals = NoEmbeddingGlobals
    /\ text_calls = NoTextCalls
    /\ enhance_call = NoEnhanceCall
    /\ retry_call = NoRetryCall
    /\ pc = "chat_request"
    /\ catalog = <<[price |-> Some(40), embedded |-> FALSE]>>
    /\ RequestInit
    /\ filter_call = NoFilterCall
    /\ search_call = NoSearchCall
    /\ request = NoRequest
    /\ parse_call = NoParseCall
    /\ \E m \in ChatMessages, n \in ChatCounts, t \in ChatThresholds :
          chat_call = [message |-> m, max_results |-> n, similarity_threshold |-> t,
                       status |-> 0]

\* the body is validated before chat() is entered; a body that fails is
\* answered by the framework
ChatRequestValidation ==
    /\ pc = "chat_request"
    /\ IF ChatRequestValid(chat_call)
       THEN /\ pc' = "chat"
            /\ UNCHANGED chat_call
       ELSE /\ pc' = "chat_done"
            /\ chat_call' = [chat_call EXCEPT !.status = ValidationErrorStatus]
    /\ UNCHANGED <<catalog, query_words, price_info, is_informational, max_results,
                   similarity_threshold, requested_threshold,
                   auto_adjust_threshold, search_results, first_call,
                   first_results, retry, pre_backfill, backfill, candidates,
                   products, response, filter_call, search_call, request,
                   parse_call,
                   retry_call,
                   enhance_call,
                   text_calls,
                   embedding_globals,
                   constructions,
                   generation>>

\* chat(), routers/chat.py lines 36-73: the extra check of the message, then
\* recommend_products is called (auto_adjust_threshold is left at its default)
ChatHandler ==
    /\ pc = "chat"
    /\ IF chat_call.message.words = 0
       THEN /\ pc' = "chat_done"
            /\ chat_call' = [chat_call EXCEPT !.status = BadRequestStatus]
            /\ UNCHANGED request
       ELSE /\ pc' = "validate_call"
            /\ request' = [user_query |-> chat_call.message,
                           max_results |-> chat_call.max_results,
                           similarity_threshold |-> chat_call.similarity_threshold,
                           auto_adjust_threshold |-> TRUE]
            /\ UNCHANGED chat_call
    /\ UNCHANGED <<catalog, query_words, price_info, is_informational, max_results,
                   similarity_threshold, requested_threshold,
                   auto_adjust_threshold, search_results, first_call,
                   first_results, retry, pre_backfill, backfill, candidates,
                   products, response, filter_call, search_call, parse_call,
                   retry_call,
                   enhance_call,
                   text_calls,
                   embedding_globals,
                   constructions,
                   generation>>

\* chat(), lines 75-133: the result of recommend_products is turned into the
\* ChatResponse
ChatReturn ==
    /\ pc = "done"
    /\ pc' = "chat_done"
    /\ chat_call' = [chat_call EXCEPT !.status = OkStatus]
    /\ UNCHANGED <<catalog, query_words, price_info, is_informational, max_results,
                   similarity_threshold, requested_threshold,
                   auto_adjust_threshold, search_results, first_call,
                   first_results, retry, pre_backfill, backfill, candidates,
                   products, response, filter_call, search_call, request,
                   parse_call,
                   retry_call,
                   enhance_call,
                   text_calls,
                   embedding_globals,
                   constructions,
                   generation>>

NextChat ==
    \/ ChatRequestValidation
    \/ ChatHandler
    \/ ValidateCall
    \/ GenerateEmbeddings
    \/ FirstPass
    \/ FirstPassRaises
    \/ Retry
    \/ RetryRaises
    \/ SkipRetry
    \/ PriceFilter
    \/ Backfill
    \/ BackfillRaises
    \/ Truncate
    \/ Respond
    \/ ChatReturn

SpecChat == InitChat /\ [][NextChat]_vars

\* ------------------------------------------------------- the retry step
\* lines 815-838 on their own: the first-pass results, the valid results of
\* the retry search, and what the step leaves in search_results
InitRetry ==
    /\ generation = NoGeneration
    /\ constructions = NoConstructions
    /\ embedding_globals = NoEmbeddingGlobals
    /\ text_calls = NoTextCalls
    /\ enhance_call = NoEnhanceCall
    /\ pc = "retry_call"
    /\ catalog = <<>>
    /\ RequestInit
    /\ filter_call = NoFilterCall
    /\ search_call = NoSearchCall
    /\ request = NoRequest
    /\ parse_call = NoParseCall
    /\ chat_call = NoChatCall
    /\ \E first \in CandidateLists, valid_retry \in CandidateLists :
          retry_call = [first |-> first, valid_retry |-> valid_retry,
                        raised |-> FALSE, result |-> <<>>]

\* the retry search returned
RetryCall ==
    /\ pc = "retry_call"
    /\ retry_call' = [retry_call EXCEPT !.result =
                         AdoptRetry(retry_call.valid_retry, retry_call.first)]
    /\ pc' = "retry_done"
    /\ UNCHANGED <<catalog, query_words, price_info, is_informational, max_results,
                   similarity_threshold, requested_threshold,
                   auto_adjust_threshold, search_results, first_call,
                   first_results, retry, pre_backfill, backfill, candidates,
                   products, response, filter_call, search_call, request,
                   parse_call, chat_call,
                   enhance_call,
                   text_calls,
                   embedding_globals,
                   constructions,
                   generation>>

\* lines 837-838: the retry search raised, search_results is left as it was
RetryCallRaises ==
    /\ pc = "retry_call"
    /\ retry_call' = [retry_call EXCEPT !.raised = TRUE, !.result = retry_call.first]
    /\ pc' = "retry_done"
    /\ UNCHANGED <<catalog, query_words, price_info, is_informational, max_results,
                   similarity_threshold, requested_threshold,
                   auto_adjust_threshold, search_results, first_call,
                   first_results, retry, pre_backfill, backfill, candidates,
                   products, response, filter_call, search_call, request,
                   parse_call, chat_call,
                   enhance_call,
                   text_calls,
                   embedding_globals,
                   constructions,
                   generation>>

NextRetry == RetryCall \/ RetryCallRaises

SpecRetry == InitRetry /\ [][NextRetry]_vars

\* ------------------------------------------------------- QueryEnhancer
\* A text is the sequence of its words. The code tests `term in query_lower`,
\* a substring test on the lower-cased text: Inside gives the dictionary
\* strings that occur inside a word ("informal" holds "formal").
EnhanceVocabulary == {"cheap", "shoes", "informal", "Gym", "40", "shoes!", "?"}
MaxExpandedWords == 20
MaxAdditionalTerms == 10

\* lines 13-34
SYNONYMS ==
    <<[term |-> "shirt",
       synonyms |-> <<"top", "blouse", "tee", "t-shirt", "tshirt">>],
      [term |-> "pants",
       synonyms |-> <<"trousers", "bottoms", "jeans", "slacks">>],
      [term |-> "shoes",
       synonyms |-> <<"footwear", "sneakers", "boots", "trainers">>],
      [term |-> "bag",
       synonyms |-> <<"purse", "handbag", "tote", "backpack", "satchel">>],
      [term |-> "watch",
       synonyms |-> <<"timepiece", "wristwatch", "timepiece">>],
      [term |-> "gym",
       synonyms |-> <<"fitness", "workout", "exercise", "athletic",
                       "training">>],
      [term |-> "meeting",
       synonyms |-> <<"business", "professional", "office", "formal",
                       "corporate">>],
      [term |-> "casual",
       synonyms |-> <<"everyday", "relaxed", "informal", "comfortable">>],
      [term |-> "formal",
       synonyms |-> <<"business", "professional", "dressy", "elegant",
                       "sophisticated">>],
      [term |-> "running",
       synonyms |-> <<"jogging", "athletic", "sport", "fitness">>],
      [term |-> "dress",
       synonyms |-> <<"gown", "frock", "outfit">>],
      [term |-> "jacket",
       synonyms |-> <<"coat", "blazer", "outerwear">>],
      [term |-> "sunglasses",
       synonyms |-> <<"shades", "eyewear", "sun glasses">>],
      [term |-> "cheap",
       synonyms |-> <<"affordable", "budget", "low price", "inexpensive",
                       "economical", "value">>],
      [term |-> "expensive",
       synonyms |-> <<"premium", "luxury", "high price", "costly", "pricey",
                       "upscale">>],
      [term |-> "affordable",
       synonyms |-> <<"cheap", "budget", "low price", "inexpensive",
                       "economical", "value">>],
      [term |-> "budget",
       synonyms |-> <<"cheap", "affordable", "low price", "inexpensive",
                       "economical">>],
      [term |-> "price",
       synonyms |-> <<"cost", "pricing", "amount", "rupee", "rupees">>],
      [term |-> "cost",
       synonyms |-> <<"price", "pricing", "amount", "rupee", "rupees">>] >>

\* line 38 and line 68: str.lower()
Lower(w) == IF w = "Gym" THEN "gym" ELSE w

\* line 60: the characters other than letters, digits, hyphen and apostrophe
\* are removed
StripSpecial(w) ==
    CASE w = "shoes!" -> "shoes"
      [] w = "?" -> ""
      [] OTHER -> w

Inside(w) ==
    CASE w = "informal" -> {"formal", "informal"}
      [] w = "budget-friendly" -> {"budget"}
      [] w = "high-end" -> {"high"}
      [] w \in {"40", "range"} -> {}
      [] OTHER -> {w}

\* the dictionary strings of two words; no two neighbouring words of a text
\* built here span one of them
PhraseStrings ==
    {"up to", "less than", "more than", "low price", "high price", "sun glasses"}
SplitWords(s) ==
    CASE s = "low price" -> <<"low", "price">>
      [] s = "high price" -> <<"high", "price">>
      [] s = "sun glasses" -> <<"sun", "glasses">>
      [] OTHER -> <<s>>

\* `s in query_lower`
InText(s, text) ==
    /\ s \notin PhraseStrings
    /\ \E i \in 1..Len(text) : s \in Inside(Lower(text[i]))

\* lines 55-61: normalize_query, read as words
NormalizeQuery(query) ==
    SelectSeq([i \in 1..Len(query) |-> StripSpecial(query[i])], LAMBDA w : w # "")

\* lines 71-76 (the rupee sign is in no word of the vocabulary)
PriceIndicators ==
    {"price", "cost", "budget", "cheap", "expensive", "affordable", "under",
     "below", "over", "above", "between", "upto", "up to", "less than",
     "more than", "maximum", "minimum", "max", "min", "rupee", "rupees", "rs"}

\* lines 63-107: enhance_price_query
EnhancePriceQuery(query) ==
    IF query = <<>> THEN query
    ELSE IF ~\E s \in PriceIndicators : InText(s, query) THEN query
    ELSE LET range == IF \E i \in 1..Len(query) : IsNumber(query[i])
                      THEN <<"price", "range", "pricing">> ELSE <<>>
             terms == IF \E s \in {"cheap", "affordable", "budget", "low"} :
                            InText(s, query)
                      THEN <<"budget-friendly", "affordable", "value">>
                      ELSE IF \E s \in {"expensive", "premium", "luxury", "high"} :
                                 InText(s, query)
                      THEN <<"premium", "luxury", "high-end">>
                      ELSE <<>>
         IN  query \o range \o terms

RECURSIVE WordsOf(_)
WordsOf(terms) ==
    IF terms = <<>> THEN <<>>
    ELSE SplitWords(Head(terms)) \o WordsOf(Tail(terms))

\* lines 42-47: the synonyms of the entries from the k-th on whose term is in
\* the query, those already in the query left out
RECURSIVE ExpandedTerms(_, _)
ExpandedTerms(query, k) ==
    IF k > Len(SYNONYMS) THEN <<>>
    ELSE (IF InText(SYNONYMS[k].term, query)
          THEN SelectSeq(SYNONYMS[k].synonyms, LAMBDA s : ~InText(s, query))
          ELSE <<>>) \o ExpandedTerms(query, k + 1)

\* lines 36-53: expand_query
ExpandQuery(query) == query \o WordsOf(ExpandedTerms(query, 1))

\* every additional word kept
CapAdditional_NoCap(additional) == additional

\* line 127: [...][:10]
CapAdditional(additional) == Take(additional, MaxAdditionalTerms)

\* lines 109-131: enhance
Enhance(query) ==
    IF query = <<>> THEN query
    ELSE LET normalized == NormalizeQuery(query)
             words == ExpandQuery(EnhancePriceQuery(normalized))
         IN  IF Len(words) > MaxExpandedWords
             THEN normalized \o
                  CapAdditional(SelectSeq(words,
                      LAMBDA w : \A i \in 1..Len(normalized) : normalized[i] # w))
             ELSE words

EnhanceQueries == UNION { [1..n -> EnhanceVocabulary] : n \in 0..MaxQueryTokens }

InitEnhance ==
    /\ generation = NoGeneration
    /\ constructions = NoConstructions
    /\ embedding_globals = NoEmbeddingGlobals
    /\ text_calls = NoTextCalls
    /\ pc = "enhance_call"
    /\ catalog = <<>>
    /\ RequestInit
    /\ filter_call = NoFilterCall
    /\ search_call = NoSearchCall
    /\ request = NoRequest
    /\ parse_call = NoParseCall
    /\ chat_call = NoChatCall
    /\ retry_call = NoRetryCall
    /\ \E q \in EnhanceQueries : enhance_call = [query |-> q, result |-> <<>>]

\* one call of QueryEnhancer.enhance
EnhanceCall ==
    /\ pc = "enhance_call"
    /\ enhance_call' = [enhance_call EXCEPT !.result = Enhance(enhance_call.query)]
    /\ pc' = "enhance_done"
    /\ UNCHANGED <<catalog, query_words, price_info, is_informational, max_results,
                   similarity_threshold, requested_threshold,
                   auto_adjust_threshold, search_results, first_call,
                   first_results, retry, pre_backfill, backfill, candidates,
                   products, response, filter_call, search_call, request,
                   parse_call, chat_call, retry_call,
                   text_calls,
                   embedding_globals,
                   constructions,
                   generation>>

SpecEnhance == InitEnhance /\ [][EnhanceCall]_vars

\* ------------------------------------------------ search_by_query_text
\* The calls of search_by_query_text that one request makes for its first
\* pass and its retry (lines 776 and 816), followed inside the function: the
\* query text is enhanced, the embedding client is invoked, the SELECT runs.
TextQueries == [1..1 -> EnhanceVocabulary]

\* vector_search.py lines 118-146: what one call does and returns
SearchByQueryTextCalls(cat, query_text, embedding_service, limit, threshold) ==
    IF ~embedding_service
    THEN {[final_query |-> <<>>, client_invoked |-> FALSE, embedded |-> FALSE,
           limit |-> limit, threshold |-> threshold, result |-> <<>>]}
    ELSE IF Enhance(query_text) = <<>>
    THEN {[final_query |-> <<>>, client_invoked |-> FALSE, embedded |-> FALSE,
           limit |-> limit, threshold |-> threshold, result |-> <<>>]}
    ELSE {[final_query |-> Enhance(query_text), client_invoked |-> TRUE,
           embedded |-> FALSE, limit |-> limit, threshold |-> threshold,
           result |-> <<>>]}
         \cup
         {[final_query |-> Enhance(query_text), client_invoked |-> TRUE,
           embedded |-> TRUE, limit |-> limit, threshold |-> threshold,
           result |-> res] :
            res \in UNION {SearchSimilarProducts(cat, sim, limit, threshold) :
                           sim \in [DOMAIN cat -> Sims]}}

InitQueryText ==
    /\ generation = NoGeneration
    /\ constructions = NoConstructions
    /\ embedding_globals = NoEmbeddingGlobals
    /\ pc = "text_first"
    /\ catalog \in CatalogsOf(NumProducts)
    /\ query_words = 1
    /\ price_info = NoPriceInfo
    /\ is_informational = "no"
    /\ max_results \in RawCounts
    /\ similarity_threshold \in RawThresholds
    /\ requested_threshold = similarity_threshold
    /\ auto_adjust_threshold = FALSE
    /\ search_results = <<>>
    /\ first_call = NoCall
    /\ first_results = <<>>
    /\ retry = NoRetry
    /\ pre_backfill = <<>>
    /\ backfill = NoBackfill
    /\ candidates = <<>>
    /\ products = <<>>
    /\ response = NoResponse
    /\ filter_call = NoFilterCall
    /\ search_call = NoSearchCall
    /\ request = NoRequest
    /\ parse_call = NoParseCall
    /\ chat_call = NoChatCall
    /\ retry_call = NoRetryCall
    /\ enhance_call = NoEnhanceCall
    /\ \E q \in TextQueries, service \in BOOLEAN :
          text_calls = [query_text |-> q, embedding_service |-> service,
                        calls |-> <<>>]

\* rag_service.py lines 775-810: the first pass
TextFirstPass ==
    /\ pc = "text_first"
    /\ \E call \in SearchByQueryTextCalls(catalog, text_calls.query_text,
                                          text_calls.embedding_service,
                                          max_results * 2, similarity_threshold) :
          /\ text_calls' = [text_calls EXCEPT !.calls = Append(@, call)]
          /\ search_results' = ValidResults(call.result)
    /\ pc' = "text_retry"
    /\ UNCHANGED <<catalog, query_words, price_info, is_informational, max_results,
                   similarity_threshold, requested_threshold,
                   auto_adjust_threshold, first_call, first_results, retry,
                   pre_backfill, backfill, candidates, products, response,
                   filter_call, search_call, request, parse_call, chat_call,
                   retry_call, enhance_call,
                   embedding_globals,
                   constructions,
                   generation>>

\* lines 812-836: the retry
TextRetry ==
    /\ pc = "text_retry"
    /\ RetryGuard(search_results, max_results, similarity_threshold)
    /\ \E call \in SearchByQueryTextCalls(catalog, text_calls.query_text,
                                          text_calls.embedding_service,
                                          max_results * 2,
                                          RetryThreshold(similarity_threshold)) :
          /\ text_calls' = [text_calls EXCEPT !.calls = Append(@, call)]
          /\ search_results' = AdoptRetry(ValidResults(call.result), search_results)
    /\ pc' = "text_done"
    /\ UNCHANGED <<catalog, query_words, price_info, is_informational, max_results,
                   similarity_threshold, requested_threshold,
                   auto_adjust_threshold, first_call, first_results, retry,
                   pre_backfill, backfill, candidates, products, response,
                   filter_call, search_call, request, parse_call, chat_call,
                   retry_call, enhance_call,
                   embedding_globals,
                   constructions,
                   generation>>

\* line 813 false
TextSkipRetry ==
    /\ pc = "text_retry"
    /\ ~RetryGuard(search_results, max_results, similarity_threshold)
    /\ pc' = "text_done"
    /\ UNCHANGED <<catalog, query_words, price_info, is_informational, max_results,
                   similarity_threshold, requested_threshold,
                   auto_adjust_threshold, search_results, first_call,
                   first_results, retry, pre_backfill, backfill, candidates,
                   products, response, filter_call, search_call, request,
                   parse_call, chat_call, retry_call, enhance_call, text_calls,
                   embedding_globals,
                   constructions,
                   generation>>

NextQueryText == TextFirstPass \/ TextRetry \/ TextSkipRetry

SpecQueryText == InitQueryText /\ [][NextQueryText]_vars

\* ------------------------------------------------ get_embedding_service
\* NumRequests requests, each building its RAGService (routers/chat.py line
\* 65), whose VectorSearchService asks get_embedding_service for the
\* process-wide EmbeddingService. construct_ok says what EmbeddingService()
\* does when this request is the one that calls it: return an instance or
\* raise. The requests run in threads; each step below is one read or write
\* of the module globals.
InitServices ==
    /\ generation = NoGeneration
    /\ pc = "requests"
    /\ catalog = <<>>
    /\ RequestInit
    /\ filter_call = NoFilterCall
    /\ search_call = NoSearchCall
    /\ request = NoRequest
    /\ parse_call = NoParseCall
    /\ chat_call = NoChatCall
    /\ retry_call = NoRetryCall
    /\ enhance_call = NoEnhanceCall
    /\ text_calls = NoTextCalls
    /\ embedding_globals = NoEmbeddingGlobals
    /\ constructions \in [1..NumRequests ->
                            [pc : {"get_embedding_service"},
                             construct_ok : BOOLEAN,
                             embedding_service : {"unset"}]]

ServicesUnchanged ==
    UNCHANGED <<pc, catalog, query_words, price_info, is_informational,
                max_results, similarity_threshold, requested_threshold,
                auto_adjust_threshold, search_results, first_call,
                first_results, retry, pre_backfill, backfill, candidates,
                products, response, filter_call, search_call, request,
                parse_call, chat_call, retry_call, enhance_call, text_calls,
                generation>>

\* embedding_service.py lines 230-231: a cached error is raised again;
\* vector_search.py lines 20-24 leave self.embedding_service at None
CheckCachedError(r) ==
    /\ constructions[r].pc = "get_embedding_service"
    /\ IF embedding_globals.embedding_service_error # "None"
       THEN constructions' = [constructions EXCEPT ![r].pc = "done",
                                                   ![r].embedding_service = "None"]
       ELSE constructions' = [constructions EXCEPT ![r].pc = "check_instance"]
    /\ UNCHANGED embedding_globals
    /\ ServicesUnchanged

\* line 233 and line 240: the cached instance is returned
CheckCachedInstance(r) ==
    /\ constructions[r].pc = "check_instance"
    /\ IF embedding_globals.embedding_service = "None"
       THEN constructions' = [constructions EXCEPT ![r].pc = "construct"]
       ELSE constructions' = [constructions EXCEPT ![r].pc = "done",
                                                   ![r].embedding_service = "instance"]
    /\ UNCHANGED embedding_globals
    /\ ServicesUnchanged

\* lines 234-238: EmbeddingService() returns and the instance is stored, or
\* it raises and the exception is stored
Construct(r) ==
    /\ constructions[r].pc = "construct"
    /\ IF constructions[r].construct_ok
       THEN /\ embedding_globals' =
                 [embedding_globals EXCEPT !.embedding_service = "instance"]
            /\ constructions' = [constructions EXCEPT ![r].pc = "done",
                                                      ![r].embedding_service = "instance"]
       ELSE /\ embedding_globals' =
                 [embedding_globals EXCEPT !.embedding_service_error = "error"]
            /\ constructions' = [constructions EXCEPT ![r].pc = "done",
                                                      ![r].embedding_service = "None"]
    /\ ServicesUnchanged

NextServices ==
    \E r \in 1..NumRequests :
        \/ CheckCachedError(r)
        \/ CheckCachedInstance(r)
        \/ Construct(r)

SpecServices == InitServices /\ [][NextServices]_vars

\* ------------------------------------------- the response, lines 892-1050
\* The end of recommend_products followed step by step: the prompt, the
\* attempts of generate_content, the cleaning of the text, the response.
\* A text is the sequence of its lines, and a line is one of: "prose";
\* "clarify", prose that holds a clarification phrase and a question mark;
\* "pair", a line the cleaning patterns of lines 993-996 match (a bullet with
\* name: detail, a product name followed by a colon); "blank".
LineKinds == {"prose", "clarify", "pair", "blank"}
LlmTexts == UNION { [1..n -> LineKinds] : n \in 0..MaxLines }

\* `not text.strip()`
IsBlank(text) == \A i \in 1..Len(text) : text[i] = "blank"

\* str.strip(), read up to blank lines
Stripped(text) == SelectSeq(text, LAMBDA l : l # "blank")

\* lines 990-1007: the lines the patterns match are emptied, then strip()
Cleaned(text) == SelectSeq(text, LAMBDA l : l \notin {"pair", "blank"})

\* the fixed texts of lines 923, 979, 984: one line of prose
TemplateText == <<"prose">>

\* _build_prompt, lines 324-467: "full" is the system prompt, the product
\* context and the user prompt. The price emphasis of lines 362-377 formats
\* price_info['max_price'] with :.0f, which raises TypeError when it is None.
BuildPromptRaises(info, inf) ==
    info.is_price_query /\ ~IsInformational(inf) /\ info.max_price = NONE

\* lines 930-937: the prompt sent; when _build_prompt raises, the prompt of
\* line 937, which holds the query only
PromptSent(info, inf) ==
    IF BuildPromptRaises(info, inf) THEN "query_only" ELSE "full"

\* a further attempt after the second
AttemptsLeft_OneMore(attempt) == attempt < MaxRetries + 1

\* line 945: for attempt in range(max_retries)
AttemptsLeft(attempt) == attempt < MaxRetries

\* the products retrieved for a query with the constraint info, n of them
RetrievedProducts(info, n) ==
    [i \in 1..n |-> [id |-> i,
                     price |-> IF info.min_price # NONE THEN Some(60) ELSE Some(40),
                     score |-> 80 - 10 * i]]

InitRespond ==
    /\ pc = "respond"
    /\ catalog = <<>>
    /\ query_words = 3
    /\ price_info \in PriceInfos
    /\ is_informational \in Informational
    /\ max_results = MaxCount
    /\ similarity_threshold = DefaultSimilarityThreshold
    /\ requested_threshold = DefaultSimilarityThreshold
    /\ auto_adjust_threshold = FALSE
    /\ \E n \in 0..MaxCount :
          /\ search_results = RetrievedProducts(price_info, n)
          /\ products = RetrievedProducts(price_info, n)
          /\ candidates = RetrievedProducts(price_info, n)
    /\ first_call = NoCall
    /\ first_results = <<>>
    /\ retry = NoRetry
    /\ pre_backfill = <<>>
    /\ backfill = NoBackfill
    /\ response = NoResponse
    /\ filter_call = NoFilterCall
    /\ search_call = NoSearchCall
    /\ request = NoRequest
    /\ parse_call = NoParseCall
    /\ chat_call = NoChatCall
    /\ retry_call = NoRetryCall
    /\ enhance_call = NoEnhanceCall
    /\ text_calls = NoTextCalls
    /\ embedding_globals = NoEmbeddingGlobals
    /\ constructions = NoConstructions
    /\ \E client \in BOOLEAN : generation = [NoGeneration EXCEPT !.llm_client = client]

RespondUnchanged ==
    UNCHANGED <<catalog, query_words, price_info, is_informational, max_results,
                similarity_threshold, requested_threshold,
                auto_adjust_threshold, search_results, first_call,
                first_results, retry, pre_backfill, backfill, candidates,
                products, filter_call, search_call, request, parse_call,
                chat_call, retry_call, enhance_call, text_calls,
                embedding_globals, constructions>>

\* lines 895-915: nothing was retrieved
RespondEmptyResult ==
    /\ pc = "respond"
    /\ products = <<>>
    /\ response' = EmptyResponse("empty", EmptyResultMessage(price_info))
    /\ generation' = [generation EXCEPT !.source = "no_match", !.text = TemplateText]
    /\ pc' = "done"
    /\ RespondUnchanged

\* lines 919-927: there is no text generator
RespondWithoutLlm ==
    /\ pc = "respond"
    /\ products # <<>>
    /\ ~generation.llm_client
    /\ response' = [kind |-> "no_llm", message |-> "found_count",
                    products |-> IF IsInformational(is_informational)
                                 THEN <<>> ELSE products,
                    needs_clarification |-> FALSE,
                    scores |-> ScoresOf(search_results)]
    /\ generation' = [generation EXCEPT !.source = "no_llm", !.text = TemplateText]
    /\ pc' = "done"
    /\ RespondUnchanged

\* lines 929-937: the prompt is built
BuildPrompt ==
    /\ pc = "respond"
    /\ products # <<>>
    /\ generation.llm_client
    /\ generation' = [generation EXCEPT
                         !.prompt = PromptSent(price_info, is_informational)]
    /\ pc' = "generate"
    /\ UNCHANGED response
    /\ RespondUnchanged

\* lines 945-979: an attempt of generate_content returns; an empty text is
\* replaced by the text of line 979
GenerateContent ==
    /\ pc = "generate"
    /\ AttemptsLeft(generation.attempts)
    /\ \E output \in LlmTexts :
          generation' = [generation EXCEPT
                            !.attempts = @ + 1,
                            !.llm_response = IF IsBlank(output) THEN TemplateText
                                             ELSE output,
                            !.source = IF IsBlank(output) THEN "empty_output"
                                       ELSE "generated"]
    /\ pc' = "clean"
    /\ UNCHANGED response
    /\ RespondUnchanged

\* lines 952-958 and 980-986: an attempt raises; the first is followed by a
\* second, the second by the text of line 984
GenerateContentRaises ==
    /\ pc = "generate"
    /\ AttemptsLeft(generation.attempts)
    /\ IF AttemptsLeft(generation.attempts + 1)
       THEN /\ generation' = [generation EXCEPT !.attempts = @ + 1, !.failed = @ + 1]
            /\ pc' = "generate"
       ELSE /\ generation' = [generation EXCEPT !.attempts = @ + 1, !.failed = @ + 1,
                                                !.llm_response = TemplateText,
                                                !.source = "error"]
            /\ pc' = "clean"
    /\ UNCHANGED response
    /\ RespondUnchanged

\* lines 988-1024: the text returned; the original text is put back when the
\* cleaning left nothing, but an informational query has returned before
ResponseText(llm_response, inf) ==
    IF IsInformational(inf) THEN Cleaned(llm_response)
    ELSE IF Cleaned(llm_response) = <<>> THEN Stripped(llm_response)
    ELSE Cleaned(llm_response)

\* lines 988-1050: the text is cleaned and the response returned
CleanAndReturn ==
    /\ pc = "clean"
    /\ LET text == ResponseText(generation.llm_response, is_informational)
           message == IF generation.source = "error" THEN "fallback_found_count"
                      ELSE "generated"
       IN  /\ generation' = [generation EXCEPT !.text = text]
           /\ response' =
                IF IsInformational(is_informational)
                THEN EmptyResponse("informational", message)
                ELSE [kind |-> "discovery", message |-> message,
                      products |-> products,
                      needs_clarification |->
                          \E i \in 1..Len(text) : text[i] = "clarify",
                      scores |-> ScoresOf(search_results)]
    /\ pc' = "done"
    /\ RespondUnchanged

NextRespond ==
    \/ RespondEmptyResult
    \/ RespondWithoutLlm
    \/ BuildPrompt
    \/ GenerateContent
    \/ GenerateContentRaises
    \/ CleanAndReturn

SpecRespond == InitRespond /\ [][NextRespond]_vars

\* ------------------------------------------------------------ properties
Satisfies(r, info) ==
    /\ info.max_price # NONE => (r.price = NONE \/ r.price[1] <= info.max_price[1])
    /\ info.min_price # NONE => (r.price # NONE /\ r.price[1] >= info.min_price[1])

AllSatisfy(results, info) == \A i \in 1..Len(results) : Satisfies(results[i], info)

NoDuplicateIds(results) ==
    \A i \in 1..Len(results), j \in 1..Len(results) :
        results[i].id = results[j].id => i = j

Contains(results, r) == \E i \in 1..Len(results) : results[i] = r

\* the request went through the retry step (it was not rejected and the
\* first search did not raise)
PastRetry ==
    \/ pc \in {"price", "backfill", "truncate", "respond"}
    \/ pc = "done" /\ response.kind \notin {"none", "invalid", "search_error"}

\* C1: when the query yields a min and/or max price, every product that
\* recommend_products returns meets it, whichever passes ran: with max set the
\* price is missing or <= max, with min set the price is present and >= min.
C1_ReturnedProductsMeetPriceBounds ==
    HasPriceBound(price_info) =>
        /\ AllSatisfy(products, price_info)
        /\ AllSatisfy(response.products, price_info)

C1_Witness ==
    /\ pc = "done"
    /\ HasPriceBound(price_info)
    /\ backfill.status = "merged"
    /\ response.products # <<>>
    /\ \E i \in 1..Len(first_results) : ~Satisfies(first_results[i], price_info)

\* C2: the list recommend_products returns never holds one product id twice,
\* on every path (first pass only, retry adopted, backfill union, backfill
\* failure).
C2_NoDuplicateProducts ==
    /\ NoDuplicateIds(search_results)
    /\ NoDuplicateIds(products)
    /\ NoDuplicateIds(response.products)

C2_Witness ==
    /\ pc = "done"
    /\ backfill.status = "merged"
    /\ Ids(pre_backfill) \cap Ids(backfill.additional) # {}
    /\ Len(response.products) >= 2

\* C3: with auto-adjustment on, the first pass searches at the caller's
\* threshold plus the word-count delta (-0.1 for at most 2 words, +0.05 for
\* more than 5 words, else 0), clamped to [0.3, 0.9].
C3_FirstPassThresholdAsClaimed ==
    (auto_adjust_threshold /\ first_call # NoCall) =>
        first_call.threshold =
            Max2(30, Min2(90, requested_threshold
                              + (IF query_words <= 2 THEN -10
                                 ELSE IF query_words > 5 THEN 5 ELSE 0)))

\* C4: the retry pass is attempted exactly when the first pass gave fewer
\* than requested_count valid results and the threshold is above 0.3; it then
\* searches at max(0.3, threshold - 0.2) with limit 2 x requested_count.
\* Without a retry the first-pass results are the candidates carried on, and
\* they are the final result of a discovery query without a price bound.
C4_RetryExactlyWhenShortAndAboveFloor ==
    PastRetry =>
        /\ retry.attempted <=>
              (Len(first_results) < max_results /\ similarity_threshold > 30)
        /\ retry.attempted =>
              /\ retry.threshold = Max2(30, similarity_threshold - 20)
              /\ retry.limit = 2 * max_results
        /\ (~retry.attempted /\ pc = "price") => search_results = first_results
        /\ (/\ ~retry.attempted
            /\ pc = "done"
            /\ ~HasPriceBound(price_info)
            /\ is_informational # "yes")
              => response.products = Take(first_results, max_results)

C4_Witness ==
    /\ pc = "done"
    /\ similarity_threshold = 30
    /\ Len(first_results) > 0
    /\ Len(first_results) < max_results
    /\ ~retry.attempted
    /\ response.products = first_results

AfterBackfill == pc = "truncate" /\ backfill.status # "none"

\* C5 as stated: after the backfill step the candidate list is at least as
\* long as the price-filtered list before it and still holds every entry of
\* that list.
C5_BackfillKeepsEveryEntry ==
    AfterBackfill =>
        /\ Len(search_results) >= Len(pre_backfill)
        /\ \A i \in 1..Len(pre_backfill) : Contains(search_results, pre_backfill[i])

\* C5 amended: after the backfill step the candidate list is at least as
\* long as the price-filtered list before it, and it still holds every entry
\* of that list whenever the union has at most 2 x requested_count entries.
C5_BackfillNeverShrinks ==
    AfterBackfill =>
        /\ Len(search_results) >= Len(pre_backfill)
        /\ Len(candidates) <= 2 * max_results =>
              \A i \in 1..Len(pre_backfill) : Contains(search_results, pre_backfill[i])

C5_Witness ==
    /\ AfterBackfill
    /\ backfill.status = "merged"
    /\ Len(pre_backfill) >= 1
    /\ Len(search_results) > Len(pre_backfill)

\* C6: a product id found, with different scores, both in the candidates
\* before the backfill and in the backfill results is in the merged list
\* exactly once, with the score of the earlier occurrence.
C6_FirstOccurrenceWins ==
    backfill.status = "merged" =>
        \A i \in 1..Len(pre_backfill), j \in 1..Len(backfill.additional) :
            (/\ pre_backfill[i].id = backfill.additional[j].id
             /\ pre_backfill[i].score # backfill.additional[j].score)
            => /\ Cardinality({k \in 1..Len(candidates) :
                                  candidates[k].id = pre_backfill[i].id}) = 1
               /\ \A k \in 1..Len(candidates) :
                     candidates[k].id = pre_backfill[i].id
                        => candidates[k].score = pre_backfill[i].score

C6_Witness ==
    /\ backfill.status = "merged"
    /\ \E i \in 1..Len(pre_backfill), j \in 1..Len(backfill.additional) :
          /\ pre_backfill[i].id = backfill.additional[j].id
          /\ pre_backfill[i].score # backfill.additional[j].score

ClaimedKeep(r, lo, hi) ==
    IF r.price = NONE
    THEN lo = NONE /\ hi # NONE
    ELSE /\ (lo = NONE \/ r.price[1] >= lo[1])
         /\ (hi = NONE \/ r.price[1] <= hi[1])

\* C7: _filter_by_price returns, in input order, exactly the candidates that
\* meet: missing price kept iff min is unset and max is set; a price kept iff
\* (min unset or price >= min) and (max unset or price <= max); with neither
\* bound set the input comes back unchanged.
C7_FilterReturnsExactlyTheMatching ==
    pc = "filter_done" =>
        filter_call.result =
            IF filter_call.min_price = NONE /\ filter_call.max_price = NONE
            THEN filter_call.products
            ELSE SelectSeq(filter_call.products,
                           LAMBDA r : ClaimedKeep(r, filter_call.min_price,
                                                  filter_call.max_price))

C7_Witness ==
    /\ pc = "filter_done"
    /\ filter_call.min_price = NONE
    /\ filter_call.max_price = Some(50)
    /\ \E i \in 1..Len(filter_call.products) : filter_call.products[i].price = NONE
    /\ \E i \in 1..Len(filter_call.products) : filter_call.products[i].price = Some(50)
    /\ \E i \in 1..Len(filter_call.products) : filter_call.products[i].price = Some(60)
    /\ Len(filter_call.result) = Len(filter_call.products) - 1

\* C8: search_similar_products returns at most limit results, none with a
\* score below the threshold and none for a product without an embedding.
C8_LimitCapAndThresholdFloor ==
    pc = "search_done" =>
        /\ Len(search_call.result) <= search_call.limit
        /\ \A i \in 1..Len(search_call.result) :
              /\ search_call.result[i].score >= search_call.threshold
              /\ catalog[search_call.result[i].id].embedded

C8_Witness ==
    /\ pc = "search_done"
    /\ ~search_call.failed
    /\ search_call.limit >= 1
    /\ Len(search_call.result) = search_call.limit
    /\ \E p \in DOMAIN catalog :
          /\ catalog[p].embedded
          /\ search_call.sim[p] > search_call.threshold
          /\ p \notin Ids(search_call.result)

C10_ReturnedLengthIsMin ==
    pc = "done" => Len(response.products) = Min2(max_results, Len(candidates))

\* C10 amended: for a query not classified informational the returned list
\* has length exactly min(requested_count, number of candidates after
\* filtering and merging); for an informational query it is empty.
C10_ReturnedLengthIsMinUnlessInformational ==
    pc = "done" =>
        IF is_informational = "yes"
        THEN response.products = <<>>
        ELSE Len(response.products) = Min2(max_results, Len(candidates))

C10_Witness ==
    /\ pc = "done"
    /\ is_informational = "no"
    /\ Len(candidates) > max_results
    /\ Len(response.products) = max_results

SortedByScore(results) ==
    \A i \in 1..Len(results), j \in 1..Len(results) :
        i < j => results[i].score >= results[j].score

NonIncreasing(scores) ==
    \A i \in 1..Len(scores), j \in 1..Len(scores) : i < j => scores[i] >= scores[j]

\* C11: the products and the scores recommend_products returns are in
\* non-increasing score order on every path: first pass only, retry adopted,
\* price filter applied, backfill union.
C11_DescendingScoreOrder ==
    /\ SortedByScore(search_results)
    /\ SortedByScore(products)
    /\ SortedByScore(response.products)
    /\ NonIncreasing(response.scores)

\* a backfill entry scored above an earlier candidate and was returned first
C11_Witness ==
    /\ pc = "done"
    /\ backfill.status = "merged"
    /\ Len(response.products) >= 2
    /\ pre_backfill # <<>>
    /\ response.products[1].id \notin Ids(pre_backfill)
    /\ response.products[1].score > response.products[2].score
    /\ response.scores = ScoresOf(response.products)

\* C12 as stated: recommend_products never raises, whatever its arguments; it
\* always returns a response object.
C12_NeverRaises == pc # "raised"

\* C16 as stated: for every integer requested_count the count used is
\* min(20, max(1, requested_count)).
C16_ClampedToNearestBound ==
    (pc = "first_pass" /\ request.max_results.type = "int") =>
        max_results = Min2(20, Max2(1, request.max_results.value))

\* C16 amended: an integer requested_count never rejects the request; the
\* count used is requested_count when it lies in [1, 20], 20 when it is
\* above 20, and the default 5 (not 1) when it is below 1.
C16_ClampedOrDefault ==
    (/\ pc # "validate_call"
     /\ request.max_results.type = "int"
     /\ request.user_query.words > 0
     /\ ValidateThreshold(request.similarity_threshold).raises = "none") =>
        /\ pc = "first_pass"
        /\ max_results = (IF request.max_results.value < 1 THEN 5
                          ELSE IF request.max_results.value > 20 THEN 20
                          ELSE request.max_results.value)

C16_Witness ==
    /\ pc = "first_pass"
    /\ request.max_results = IntArg(0)
    /\ max_results = 5

Retrieved == pc = "done" /\ response.kind \notin {"none", "invalid", "search_error"}

\* C14: when the final product list is empty recommend_products returns a
\* response without products, whose message is the price-range message if and
\* only if a min or max price was parsed from the query, and the generic
\* no-match message otherwise.
C14_EmptyResultMessageTellsPriceBound ==
    (Retrieved /\ products = <<>>) =>
        /\ response.kind = "empty"
        /\ response.products = <<>> /\ response.scores = <<>>
        /\ ~response.needs_clarification
        /\ response.message \in {"no_match_in_price_range", "no_match"}
        /\ response.message = "no_match_in_price_range" <=> HasPriceBound(price_info)

\* the price filter and the backfill left nothing of what the search found
C14_Witness ==
    /\ Retrieved
    /\ first_results # <<>>
    /\ products = <<>>
    /\ backfill.status = "merged"
    /\ response.message = "no_match_in_price_range"

\* C20: of a request that retrieved products, recommend_products leaves the
\* products out of the response exactly when the query matched an
\* informational pattern, whether the text generator is available,
\* unavailable or failing; a question that matched no pattern is treated as
\* discovery and its products are returned.
C20_ProductsOmittedIffInformational ==
    (Retrieved /\ products # <<>>) =>
        /\ response.products = <<>> <=> is_informational = "yes"
        /\ is_informational # "yes" => response.products = products
        /\ response.kind \in {"no_llm", "informational", "discovery"}

\* an informational query whose text generation failed
C20_Witness ==
    /\ Retrieved
    /\ products # <<>>
    /\ is_informational = "yes"
    /\ response.message = "fallback_found_count"
    /\ response.products = <<>>

Parsed == pc = "parse_done"
ParsedInfo == IF parse_call.result = NONE THEN NoPriceInfo ELSE parse_call.result[1]
ParsedValues == PriceValues(parse_call.query)

\* C17 as stated: for a query with at least one positive number each
\* directional rule applies: with an upper-bound keyword max_price is the
\* largest number, with a lower-bound keyword min_price is the smallest
\* number, with "between" (or two numbers and an "and") min_price is the
\* smallest and max_price the largest number.
C17_EachDirectionalRuleApplies ==
    (Parsed /\ ParsedValues # <<>>) =>
        /\ QueryContains(parse_call.query, UpperKeywords) =>
              ParsedInfo.max_price = Some(MaxOf(ParsedValues))
        /\ QueryContains(parse_call.query, LowerKeywords) =>
              ParsedInfo.min_price = Some(MinOf(ParsedValues))
        /\ (\/ QueryContains(parse_call.query, {"between"})
            \/ (Len(ParsedValues) >= 2 /\ QueryContains(parse_call.query, {"and"}))) =>
              /\ ParsedInfo.min_price = Some(MinOf(ParsedValues))
              /\ ParsedInfo.max_price = Some(MaxOf(ParsedValues))

NoBoundDerivable(query) ==
    \/ /\ PriceValues(query) = <<>>
       /\ ~QueryContains(query, CheapKeywords \cup ExpensiveKeywords)
    \/ /\ Len(PriceValues(query)) >= 2
       /\ ~QueryContains(query, UpperKeywords \cup LowerKeywords \cup {"between", "and"})

\* C19 as stated: None is returned exactly when the query carries no price
\* signal (no price keyword, no positive number, no qualitative term), and a
\* returned constraint has at least one bound set.
C19_ConstraintAlwaysHasBound ==
    Parsed =>
        /\ parse_call.result = NONE <=>
              /\ ~QueryContains(parse_call.query, PriceKeywords)
              /\ PriceValues(parse_call.query) = <<>>
              /\ ~QueryContains(parse_call.query, CheapKeywords \cup ExpensiveKeywords)
        /\ parse_call.result # NONE => HasPriceBound(ParsedInfo)

\* C19 amended: None is returned exactly when the query contains no price
\* keyword and leads to no bound; a constraint with both bounds unset is
\* returned exactly when the query contains a price keyword but leads to no
\* bound.
C19_NoneIffNoKeywordAndNoBound ==
    Parsed =>
        /\ parse_call.result = NONE <=>
              /\ ~QueryContains(parse_call.query, PriceKeywords)
              /\ NoBoundDerivable(parse_call.query)
        /\ (parse_call.result # NONE /\ ~HasPriceBound(ParsedInfo)) <=>
              /\ QueryContains(parse_call.query, PriceKeywords)
              /\ NoBoundDerivable(parse_call.query)

C19_Witness ==
    /\ Parsed
    /\ parse_call.result # NONE
    /\ ParsedInfo.is_price_query
    /\ ~HasPriceBound(ParsedInfo)

\* C15 as stated: a request to the chat endpoint whose message is empty or
\* whitespace-only is answered with HTTP 400, and no search and no text
\* generation is made for it.
C15_EmptyMessageAnswered400 ==
    (/\ pc = "chat_done"
     /\ chat_call.message.type = "str"
     /\ chat_call.message.words = 0) =>
        /\ chat_call.status = 400
        /\ first_call = NoCall
        /\ response = NoResponse

\* C23: after the retry step the candidates are the larger of the first-pass
\* results and the valid retry results: the first-pass results are replaced
\* only when the retry returned strictly more, so the count never decreases
\* across the step, also when the retry raised or returned fewer.
C23_LargerSetKept ==
    pc = "retry_done" =>
        /\ retry_call.result \in {retry_call.first, retry_call.valid_retry}
        /\ Len(retry_call.result) >= Len(retry_call.first)
        /\ retry_call.raised => retry_call.result = retry_call.first
        /\ ~retry_call.raised =>
              /\ Len(retry_call.result) =
                    Max2(Len(retry_call.first), Len(retry_call.valid_retry))
              /\ retry_call.result # retry_call.first =>
                    Len(retry_call.valid_retry) > Len(retry_call.first)

\* a retry that returned as many results as the first pass, but other ones
C23_Witness ==
    /\ pc = "retry_done"
    /\ ~retry_call.raised
    /\ retry_call.first # <<>>
    /\ Len(retry_call.valid_retry) = Len(retry_call.first)
    /\ retry_call.valid_retry # retry_call.first
    /\ retry_call.result = retry_call.first

\* C24 as stated: the backfill pass searches with limit 3 x requested_count
\* and threshold max(0.3, t - 0.15), t being the threshold of the last pass
\* before it (the retry's when the retry ran, else the first pass's); hence
\* when a retry ran the backfill threshold is not above the retry threshold.
C24_BackfillBelowLastPass ==
    backfill.status # "none" =>
        LET t == IF retry.attempted THEN retry.threshold ELSE first_call.threshold
        IN  /\ backfill.limit = 3 * max_results
            /\ backfill.threshold = Max2(30, t - 15)
            /\ retry.attempted => backfill.threshold <= retry.threshold

\* the search passes a request has made so far
PassesRun ==
    (IF first_call # NoCall THEN 1 ELSE 0) + (IF retry.attempted THEN 1 ELSE 0)
        + (IF backfill.status # "none" THEN 1 ELSE 0)

\* the request is past the backfill step
PastBackfill ==
    \/ pc \in {"truncate", "respond"}
    \/ pc = "done" /\ response.kind \notin {"none", "invalid", "search_error"}

\* which passes have run, and when the backfill pass has
PassesGuarded ==
    /\ PassesRun <= 3
    /\ retry.attempted => first_call # NoCall
    /\ backfill.status # "none" => (first_call # NoCall /\ pc # "retry")
    /\ PastBackfill =>
          (backfill.status # "none" <=>
              (HasPriceBound(price_info) /\ Len(pre_backfill) < max_results))

\* a pass starts at its own place, after the passes before it and once
PassesStartInOrder ==
    /\ first_call' # first_call =>
          (pc = "first_pass" /\ first_call = NoCall /\ ~retry.attempted
           /\ backfill.status = "none")
    /\ retry' # retry =>
          (pc = "retry" /\ first_call # NoCall /\ ~retry.attempted
           /\ backfill.status = "none")
    /\ backfill' # backfill =>
          (pc = "backfill" /\ first_call # NoCall /\ backfill.status = "none")

\* C25: one request makes at most three search passes, in the order first
\* pass, retry, backfill, each started only after the one before it has
\* finished; the backfill pass runs if and only if a min or max price was
\* parsed and the price-filtered candidates are fewer than requested_count,
\* and it runs at most once.
C25_PassesInOrderBackfillGuarded ==
    []PassesGuarded /\ [][PassesStartInOrder]_vars

\* all three passes ran
C25_Witness ==
    /\ pc = "done"
    /\ first_call # NoCall
    /\ retry.attempted
    /\ backfill.status = "merged"
    /\ HasPriceBound(price_info)
    /\ Len(pre_backfill) < max_results

\* C29 as stated: in every response of recommend_products the products list
\* and the scores list have the same length and scores[i] is the score of
\* products[i], on every return path.
C29_ScoresAlignedWithProducts ==
    pc = "done" =>
        /\ Len(response.scores) = Len(response.products)
        /\ \A i \in 1..Len(response.products) :
              response.scores[i] = response.products[i].score

IsPrefix(s, t) == Len(s) <= Len(t) /\ SubSeq(t, 1, Len(s)) = s

\* C22: for every non-empty query the output of QueryEnhancer.enhance begins
\* with all words of the normalized query in their order, and whenever the
\* expanded query exceeds 20 words the output is the normalized query followed
\* by at most 10 additional terms.
C22_OriginalWordsKeptExpansionCapped ==
    (pc = "enhance_done" /\ enhance_call.query # <<>>) =>
        LET normalized == NormalizeQuery(enhance_call.query)
            expanded == ExpandQuery(EnhancePriceQuery(normalized))
        IN  /\ IsPrefix(normalized, enhance_call.result)
            /\ Len(expanded) > 20 =>
                  Len(enhance_call.result) <= Len(normalized) + 10
            /\ Len(expanded) <= 20 => enhance_call.result = expanded

\* a two-word query whose expansion has 21 words
C22_Witness ==
    /\ pc = "enhance_done"
    /\ enhance_call.query = <<"cheap", "shoes!">>
    /\ Len(ExpandQuery(EnhancePriceQuery(<<"cheap", "shoes">>))) > 20
    /\ Len(enhance_call.result) = 12
    /\ SubSeq(enhance_call.result, 1, 2) = <<"cheap", "shoes">>

\* C26 as stated: the query is enhanced and embedded once per request: the
\* retry searches with the enhanced query and the embedding of the first
\* pass without invoking the embedding client again, so an embedding that
\* succeeded for the first pass cannot fail for the retry.
C26_EmbeddedOncePerRequest ==
    (pc = "text_done" /\ Len(text_calls.calls) = 2) =>
        /\ text_calls.calls[2].final_query = text_calls.calls[1].final_query
        /\ text_calls.calls[1].client_invoked => ~text_calls.calls[2].client_invoked
        /\ text_calls.calls[1].embedded => text_calls.calls[2].embedded

\* what VectorSearchService gets from get_embedding_service when the request
\* is the only one the process serves
AloneEmbeddingService(r) ==
    IF constructions[r].construct_ok THEN "instance" ELSE "None"

\* C21 as stated: no request mutates state shared with other requests, so
\* for any ordering or interleaving of concurrent requests, one whose
\* embedding-client construction fails included, each request gets the
\* result it would get if it ran alone.
C21_ResultAsIfAlone ==
    /\ embedding_globals = NoEmbeddingGlobals
    /\ \A r \in DOMAIN constructions :
          constructions[r].pc = "done" =>
              constructions[r].embedding_service = AloneEmbeddingService(r)

\* C27: in one request the text generator is called at most twice, the
\* second time only after the first call failed; when both calls fail the
\* error is absorbed: the response carries the fallback text and, for a
\* discovery query, the retrieved products and their scores.
C27_TwoAttemptsThenFallback ==
    /\ pc # "raised"
    /\ generation.attempts <= 2
    /\ generation.attempts = 2 => generation.failed >= 1
    /\ generation.attempts - generation.failed <= 1
    /\ (pc \in {"clean", "done"} /\ generation.failed = 2) =>
          /\ generation.source = "error"
          /\ generation.llm_response = TemplateText
    /\ (pc = "done" /\ generation.failed = 2) =>
          /\ generation.text = TemplateText
          /\ response.message = "fallback_found_count"
          /\ ~IsInformational(is_informational) =>
                /\ response.kind = "discovery"
                /\ response.products = products
                /\ response.scores = ScoresOf(products)

\* both calls failed for a discovery query with two products
C27_Witness ==
    /\ pc = "done"
    /\ generation.attempts = 2
    /\ generation.failed = 2
    /\ is_informational = "no"
    /\ Len(response.products) = 2
    /\ response.message = "fallback_found_count"

\* C28 as stated: for every discovery request that retrieved a product and
\* has a text generator, the prompt sent to the text generator contains the
\* context of the retrieved products, whatever price constraint was parsed
\* (max only, min only, both, price keywords without a bound).
C28_PromptHasProductContext ==
    (/\ generation.prompt # "none"
     /\ ~IsInformational(is_informational)
     /\ products # <<>>) =>
        generation.prompt = "full"

\* C30 as stated: the response text is never empty or whitespace-only: when
\* the generator's output is empty or the cleaning strips it to nothing, a
\* fallback or the original text is returned instead, for informational as
\* well as discovery queries.
C30_ResponseTextNeverBlank ==
    pc = "done" => (generation.text # <<>> /\ ~IsBlank(generation.text))
====
